---- MODULE Spec2Model ----
(***************************************************************************)
(* FreeBili meta-search aggregator (src/main.py).                          *)
(*                                                                         *)
(* Three state machines share this module:                                   *)
(*   Spec       the streaming engine: search -> search_event_generator ->  *)
(*              one asyncio task per source running fetch_and_process,     *)
(*              merged by asyncio.as_completed, with POST /config          *)
(*              (update_config) and consumer disconnects interleaved;      *)
(*   ParseSpec  the pure function parse_cms_data applied to bounded raw    *)
(*              lists;                                                     *)
(*   FetchSpec  a search over one source whose upstream response is fixed  *)
(*              beforehand, over a wider set of responses.                 *)
(*                                                                         *)
(* Python strings are sequences of one-character strings, so that          *)
(* str.split is computed the way CPython computes it.                      *)
(***************************************************************************)
EXTENDS Integers, Sequences, FiniteSets, TLC

\* ---------------------------------------------------------------- bounds
\* Largest number of sources in a configuration.
MaxSources == 2
\* Largest number of POST /config requests in one behaviour.
MaxUpdates == 1
\* Longest vod_play_url enumerated character by character.
MaxLen == 4
\* Longest text enumerated after the first play-scheme delimiter.
MaxSuffix == 1
\* Longest raw list handed to parse_cms_data in ParseSpec.
MaxEntries == 2

VARIABLES
    site_config,   \* the global dict: [timeout, base_urls]; base_urls is a reference into lists
    lists,         \* heap of Python list objects: reference -> sequence of sources
    nlists,        \* number of list objects allocated so far
    nupdates,      \* number of POST /config handled so far
    pc,            \* where the one search of the behaviour stands (see search, RunLoop)
    keyword,       \* the keyword argument of search_event_generator
    sources,       \* the sources argument of search_event_generator: a reference into lists
    invoked_with,  \* history: the contents of the source list when search was invoked
    client,        \* the httpx.AsyncClient of the search: "none" | "open" | "closed"
    tasks,         \* the asyncio tasks created at lines 110-113, in source-list order;
                   \* outcome is history: the class of the response the task received
    done_q,        \* the queue inside asyncio.as_completed: settled tasks not yet awaited
    completed,     \* history: task indices in the order the tasks settled
    consumed,      \* number of futures of as_completed the generator has awaited
    emitted,       \* the events yielded so far, in order
    cms_list,      \* ParseSpec: the raw list handed to parse_cms_data
    parsed,        \* ParseSpec: what the call returned (or that it raised)
    upstream       \* FetchSpec: the response the upstream API gives to the one request

engine_vars == <<site_config, lists, nlists, nupdates, pc, keyword, sources,
                 invoked_with, client, tasks, done_q, completed, consumed, emitted>>
parse_vars == <<cms_list, parsed>>
vars == <<site_config, lists, nlists, nupdates, pc, keyword, sources,
          invoked_with, client, tasks, done_q, completed, consumed, emitted,
          cms_list, parsed, upstream>>

\* ------------------------------------------------------- Python strings
\* str.split(sep) for a non-empty separator: scan left to right, cut at every
\* non-overlapping occurrence. i is the scan position, cur the start of the
\* part being collected.
RECURSIVE SplitFrom(_, _, _, _)
SplitFrom(s, sep, i, cur) ==
    IF i + Len(sep) - 1 > Len(s)
    THEN << SubSeq(s, cur, Len(s)) >>
    ELSE IF SubSeq(s, i, i + Len(sep) - 1) = sep
         THEN << SubSeq(s, cur, i - 1) >>
              \o SplitFrom(s, sep, i + Len(sep), i + Len(sep))
         ELSE SplitFrom(s, sep, i + 1, cur)

split(s, sep) == SplitFrom(s, sep, 1, 1)

\* JSON values of a raw entry: a string, null, or the key being absent.
Str(s) == [t |-> "str", s |-> s]
Null == [t |-> "null", s |-> << >>]
Missing == [t |-> "missing", s |-> << >>]

\* dict.get(key, default)
Get(item, key, default) == IF item[key].t = "missing" THEN default ELSE item[key]

\* --------------------------------------------------------- parse_cms_data
\* The play-scheme delimiter and the two separators of lines 54, 57, 59.
SchemeDelim == << "$", "$", "$" >>
EpisodeSep == << "#" >>
PartSep == << "$" >>

\* Line 54, the argument of .split: item.get("vod_play_url", "").
PlayUrl(item) == Get(item, "vod_play_url", Str(<< >>))

\* A parser that reads every play scheme: the split of line 54 left out.
FirstSchemeWholeString(s) == s

\* Line 54: .split("$$$")[0]
FirstScheme(s) == split(s, SchemeDelim)[1]

\* A test that also keeps a token with extra "$" (its first two parts).
TokenKeptAtLeastTwo(parts) == Len(parts) >= 2

\* Line 60: the test that keeps a token.
TokenKept(parts) == Len(parts) = 2

\* Lines 61-62: the dict appended to videos.
EpisodeOf(parts) == [name |-> parts[1], video_url |-> parts[2]]

\* Lines 56-62: the loop over the tokens of the first scheme.
RECURSIVE Videos(_)
Videos(episodes) ==
    IF episodes = << >>
    THEN << >>
    ELSE LET parts == split(Head(episodes), PartSep)
         IN  (IF TokenKept(parts) THEN << EpisodeOf(parts) >> ELSE << >>)
             \o Videos(Tail(episodes))

\* A parser without the test of line 64.
TitleKeptAlways(videos) == TRUE

\* Line 64: the test that keeps an entry.
TitleKept(videos) == videos # << >>

\* Lines 65-71: the dict appended to results. "DEFAULT_NAME" stands for the
\* placeholder literal of line 66.
TitleOf(item, videos) ==
    [name |-> Get(item, "vod_name", Str(<< "DEFAULT_NAME" >>)),
     vod_pic |-> Get(item, "vod_pic", Str(<< >>)),
     videos |-> videos,
     vod_id |-> Get(item, "vod_id", Str(<< >>)),
     vod_douban_id |-> Get(item, "vod_douban_id", Str(<< >>))]

\* A loop that puts each new Title in front of the earlier ones
\* (results.insert(0, ...)).
RECURSIVE ResultsPrepend(_)
ResultsPrepend(cms) ==
    IF cms = << >>
    THEN << >>
    ELSE LET item == Head(cms)
             videos == Videos(split(FirstScheme(PlayUrl(item).s), EpisodeSep))
         IN  ResultsPrepend(Tail(cms))
             \o (IF TitleKept(videos) THEN << TitleOf(item, videos) >> ELSE << >>)

\* Lines 53-71: the loop over the raw entries, for entries whose
\* vod_play_url is a string.
RECURSIVE Results(_)
Results(cms) ==
    IF cms = << >>
    THEN << >>
    ELSE LET item == Head(cms)
             videos == Videos(split(FirstScheme(PlayUrl(item).s), EpisodeSep))
         IN  (IF TitleKept(videos) THEN << TitleOf(item, videos) >> ELSE << >>)
             \o Results(Tail(cms))

\* Line 54 on a value that is not a str (JSON null): None has no .split, an
\* AttributeError leaves parse_cms_data.
ParseRaises(cms) == \E i \in 1..Len(cms) : PlayUrl(cms[i]).t # "str"

\* What a call evaluates to: the returned dict, or an exception.
Raised(exc) == [kind |-> "raise", name |-> << exc >>, result |-> << >>]
Dict(source_name, results) == [kind |-> "dict", name |-> source_name, result |-> results]
None == [kind |-> "None", name |-> << >>, result |-> << >>]

\* Lines 48-76.
parse_cms_data(source_name, cms) ==
    IF ParseRaises(cms)
    THEN Raised("AttributeError")
    ELSE Dict(source_name, Results(cms))

\* ------------------------------------------------------ fetch_and_process
\* A raw entry: every key present, or only vod_play_url (url may itself be
\* Missing). pos is the entry's vod_id.
Entry(url, full, pos) ==
    [vod_name |-> IF full THEN Str(<< "T" >>) ELSE Missing,
     vod_pic |-> IF full THEN Str(<< "p" >>) ELSE Missing,
     vod_play_url |-> url,
     vod_id |-> IF full THEN Str(<< ToString(pos) >>) ELSE Missing,
     vod_douban_id |-> IF full THEN Str(<< "d" >>) ELSE Missing]

\* What one GET may come back with: a transport failure (connection error,
\* timeout), or a status and a body; the body is not JSON ("text"), JSON that is
\* not an object ("array"), or an object whose "code" is code and whose "list" is
\* list (a missing "list" and an empty one are both falsy at line 97: << >>).
Response(neterr, status, body, code, list) ==
    [neterr |-> neterr, status |-> status, body |-> body, code |-> code, list |-> list]

GoodEntry == Entry(Str(<< "A", "$", "u" >>), TRUE, 1)
MalformedEntry == Entry(Str(<< "A" >>), TRUE, 2)
NullUrlEntry == Entry(Null, TRUE, 2)

RespNetErr == Response(TRUE, 0, "text", 0, << >>)
RespHttp404 == Response(FALSE, 404, "text", 0, << >>)
RespNotJson == Response(FALSE, 200, "text", 0, << >>)
RespArray == Response(FALSE, 200, "array", 0, << >>)
RespCode0 == Response(FALSE, 200, "object", 0, << GoodEntry >>)
RespEmptyList == Response(FALSE, 200, "object", 1, << >>)
RespAllMalformed == Response(FALSE, 200, "object", 1, << MalformedEntry >>)
RespGood == Response(FALSE, 200, "object", 1, << GoodEntry >>)
RespGoodAndMalformed == Response(FALSE, 200, "object", 1, << GoodEntry, MalformedEntry >>)
RespGoodAndNullUrl == Response(FALSE, 200, "object", 1, << GoodEntry, NullUrlEntry >>)

\* No request has been answered.
NoResponse == Response(FALSE, 0, "text", 0, << >>)

Responses ==
    { RespNetErr, RespHttp404, RespNotJson, RespArray, RespCode0, RespEmptyList,
      RespAllMalformed, RespGood, RespGoodAndMalformed, RespGoodAndNullUrl }

\* Line 82: f"{source['base_url']}?ac=detail&wd={keyword}"
RequestUrl(base_url, kw) == base_url \o << "?", "ac", "=", "detail", "&", "wd", "=" >> \o kw

\* A body that parses any non-empty list, whatever "code" is.
TryBodyIgnoresCode(name, r) ==
    IF r.neterr THEN Raised("RequestError")
    ELSE IF ~(200 <= r.status /\ r.status <= 299) THEN Raised("HTTPStatusError")
    ELSE IF r.body = "text" THEN Raised("JSONDecodeError")
    ELSE IF r.body # "object" THEN Raised("AttributeError")
    ELSE IF r.list # << >> THEN parse_cms_data(name, r.list)
    ELSE None

\* Lines 88-100, the body of the try: what it returns or raises on response r.
TryBody(name, r) ==
    IF r.neterr THEN Raised("RequestError")                        \* line 88
    ELSE IF ~(200 <= r.status /\ r.status <= 299)
         THEN Raised("HTTPStatusError")                            \* line 94
    ELSE IF r.body = "text" THEN Raised("JSONDecodeError")         \* line 96
    ELSE IF r.body # "object" THEN Raised("AttributeError")        \* line 97: data.get
    ELSE IF r.code = 1 /\ r.list # << >>
         THEN parse_cms_data(name, r.list)                         \* line 98
         ELSE None                                                 \* line 100

\* A handler that catches transport errors only (except httpx.RequestError).
CaughtOnlyRequestError(exc) == exc = "RequestError"

\* Line 102: every exception the body can raise derives from Exception.
CaughtByExcept(exc) == TRUE

\* Lines 87-103: the value the task settles with.
fetch_and_process(name, r) ==
    LET v == TryBody(name, r)
    IN  IF v.kind = "raise" /\ CaughtByExcept(v.name[1]) THEN None ELSE v

\* ---------------------------------------------------------- configuration
\* The i-th source of the configuration posted as version v (version 0 is the
\* one get_config() loaded at line 16).
Source(v, i) ==
    [name |-> << "s", ToString(v), ToString(i) >>,
     base_url |-> << "http", ToString(v), ToString(i) >>]

ConfigSources(v, n) == [i \in 1..n |-> Source(v, i)]

\* The timeout of configuration version v: each version carries its own.
TimeoutOf(v) == 5 + v

ListRefs == 1..(MaxUpdates + 1)

\* The number of sources of a posted configuration: none, or as many as fit.
PostedSizes == { 0, MaxSources }

\* The keywords a request may carry; the empty one is rejected at line 125.
Keywords == { << >>, << "k", "&", "x" >> }

\* ------------------------------------------------- search_event_generator
\* How a response is classified by what it is, before any code looks at it:
\* the fetch failed (transport error, non-2xx status, body that is not JSON, JSON
\* of the wrong shape), or it succeeded and its list holds a valid title (an
\* entry whose first play scheme has a name$url token) or holds none.
FetchFailed(r) ==
    \/ r.neterr
    \/ r.status < 200
    \/ r.status > 299
    \/ r.body # "object"
    \/ r.code # 1
    \/ r.list = << >>

ValidEntry(e) ==
    /\ e.vod_play_url.t = "str"
    /\ Results(<< e >>) # << >>

Outcome(r) ==
    IF FetchFailed(r) THEN "failed"
    ELSE IF \E j \in 1..Len(r.list) : ValidEntry(r.list[j]) THEN "valid"
    ELSE "novalid"

Pending == [kind |-> "pending", name |-> << >>, result |-> << >>]

\* Line 111: asyncio.create_task(fetch_and_process(client, source, keyword));
\* the coroutine has not run yet. sent counts the requests line 88 has put on
\* the wire for the source.
NewTask(source) ==
    [st |-> "created", source |-> source, url |-> << >>, timeout |-> 0,
     sent |-> 0, outcome |-> "none", result |-> Pending]

\* A merge that hands out the task that settled last first (a stack).
EnqueueFront(q, i) == << i >> \o q

\* as_completed's _on_completion: a settled task is put on the queue.
Enqueue(q, i) == Append(q, i)

\* A loop that awaits one future more than there are tasks.
LoopFinishedLate(k, n) == k = n + 1

\* A loop that stops one future short.
LoopFinishedEarly(k, n) == k + 1 >= n

\* as_completed yields one awaitable per task: range(len(todo)).
LoopFinished(k, n) == k = n

\* Line 117: if result and result.get("result")
ShouldEmit(r) == r.kind = "dict" /\ r.result # << >>

\* A loop that awaits the tasks in list order (for t in tasks: await t)
\* instead of in completion order.
RECURSIVE RunLoopInListOrder(_, _, _, _)
RunLoopInListOrder(ts, q, k, em) ==
    IF LoopFinished(k, Len(ts))
    THEN [pc |-> "done", done_q |-> q, consumed |-> k, emitted |-> em]
    ELSE IF ts[k + 1].st # "done"
         THEN [pc |-> "awaiting", done_q |-> q, consumed |-> k, emitted |-> em]
         ELSE LET i == k + 1
                  r == ts[i].result
              IN  IF r.kind = "raise"
                  THEN [pc |-> "error", done_q |-> q, consumed |-> k + 1,
                        emitted |-> em]
                  ELSE IF ShouldEmit(r)
                       THEN [pc |-> "yielded", done_q |-> q, consumed |-> k + 1,
                             emitted |-> Append(em, [task |-> i, data |-> r])]
                       ELSE RunLoopInListOrder(ts, q, k + 1, em)

\* Lines 115-118 from the top of an iteration until the generator suspends or
\* ends: k futures have been awaited, q holds the settled tasks not yet
\* awaited. It ends ("done") after len(tasks) awaits, suspends at line 116
\* ("awaiting") on an empty queue, suspends at line 118 ("yielded") with one
\* more event, or is left by an exception a task raised ("error").
RECURSIVE RunLoop(_, _, _, _)
RunLoop(ts, q, k, em) ==
    IF LoopFinished(k, Len(ts))
    THEN [pc |-> "done", done_q |-> q, consumed |-> k, emitted |-> em]
    ELSE IF q = << >>
         THEN [pc |-> "awaiting", done_q |-> q, consumed |-> k, emitted |-> em]
         ELSE LET i == Head(q)
                  r == ts[i].result
              IN  IF r.kind = "raise"
                  THEN [pc |-> "error", done_q |-> Tail(q), consumed |-> k + 1,
                        emitted |-> em]
                  ELSE IF ShouldEmit(r)
                       THEN [pc |-> "yielded", done_q |-> Tail(q), consumed |-> k + 1,
                             emitted |-> Append(em, [task |-> i, data |-> r])]
                       ELSE RunLoop(ts, Tail(q), k + 1, em)

\* Line 109: leaving the async with block closes the client.
ClientAfter(p, c) == IF p \in {"done", "error"} THEN "closed" ELSE c

\* The generator runs from where it stands until it suspends or ends.
Resume(ts, c) ==
    LET g == RunLoop(ts, done_q, consumed, emitted)
    IN  /\ pc' = g.pc
        /\ done_q' = g.done_q
        /\ consumed' = g.consumed
        /\ emitted' = g.emitted
        /\ client' = ClientAfter(g.pc, c)

\* ---------------------------------------------------------------- actions
\* Lines 120-131: GET /search?keyword=kw. The generator object is built with
\* the list site_config["base_urls"] refers to at this moment; its body does
\* not run before the response is iterated.
search(kw) ==
    /\ pc = "idle"
    /\ keyword' = kw
    /\ IF kw = << >>
       THEN /\ pc' = "rejected"
            /\ UNCHANGED <<sources, invoked_with>>
       ELSE /\ pc' = "created"
            /\ sources' = site_config.base_urls
            /\ invoked_with' = lists[site_config.base_urls]
    /\ UNCHANGED <<site_config, lists, nlists, nupdates, client, tasks, done_q,
                   completed, consumed, emitted, cms_list, parsed, upstream>>

\* Lines 109-116, the first __anext__: the client is opened, one task per
\* element of the list is created, and the loop is entered.
GenStart ==
    /\ pc = "created"
    /\ LET ts == [i \in 1..Len(lists[sources]) |-> NewTask(lists[sources][i])]
       IN  /\ tasks' = ts
           /\ Resume(ts, "open")
    /\ UNCHANGED <<site_config, lists, nlists, nupdates, keyword, sources,
                   invoked_with, completed, cms_list, parsed, upstream>>

\* Lines 82-93, the first step of every task: asyncio runs the callbacks
\* create_task scheduled back to back, in order. Each builds its URL, reads
\* site_config["timeout"] and sends its request; on a client that is already
\* closed httpx raises RuntimeError, which line 102 turns into None.
StartedTask(t) ==
    IF client = "open"
    THEN [t EXCEPT !.st = "inflight",
                   !.url = RequestUrl(t.source.base_url, keyword),
                   !.timeout = site_config.timeout,
                   !.sent = t.sent + 1]
    ELSE [t EXCEPT !.st = "done",
                   !.url = RequestUrl(t.source.base_url, keyword),
                   !.timeout = site_config.timeout,
                   !.result = None]

RECURSIVE EnqueueAll(_, _, _)
EnqueueAll(q, i, n) == IF i > n THEN q ELSE EnqueueAll(Enqueue(q, i), i + 1, n)

TasksStart ==
    /\ Len(tasks) > 0
    /\ tasks[1].st = "created"
    /\ tasks' = [i \in 1..Len(tasks) |-> StartedTask(tasks[i])]
    /\ IF client = "open"
       THEN UNCHANGED <<done_q, completed>>
       ELSE /\ done_q' = EnqueueAll(done_q, 1, Len(tasks))
            /\ completed' = [i \in 1..Len(tasks) |-> i]
    /\ UNCHANGED <<site_config, lists, nlists, nupdates, pc, keyword, sources,
                   invoked_with, client, consumed, emitted, cms_list, parsed, upstream>>

\* A fetch that sends its request a second time when the first one brought
\* no result.
TaskSettleWithRetry(i, r) ==
    /\ i \in 1..Len(tasks)
    /\ tasks[i].st = "inflight"
    /\ IF Outcome(r) # "valid" /\ tasks[i].sent < 2
       THEN /\ tasks' = [tasks EXCEPT ![i].sent = tasks[i].sent + 1]
            /\ UNCHANGED <<done_q, completed>>
       ELSE /\ tasks' = [tasks EXCEPT ![i].st = "done",
                                      ![i].outcome = Outcome(r),
                                      ![i].result = fetch_and_process(tasks[i].source.name, r)]
            /\ done_q' = Enqueue(done_q, i)
            /\ completed' = Append(completed, i)
    /\ UNCHANGED <<site_config, lists, nlists, nupdates, pc, keyword, sources,
                   invoked_with, client, consumed, emitted, cms_list, parsed, upstream>>

\* Lines 88-103: the request of task i ends with response r and the task
\* settles; its done callback puts it on as_completed's queue.
TaskSettle(i, r) ==
    /\ i \in 1..Len(tasks)
    /\ tasks[i].st = "inflight"
    /\ tasks' = [tasks EXCEPT ![i].st = "done",
                              ![i].outcome = Outcome(r),
                              ![i].result = fetch_and_process(tasks[i].source.name, r)]
    /\ done_q' = Enqueue(done_q, i)
    /\ completed' = Append(completed, i)
    /\ UNCHANGED <<site_config, lists, nlists, nupdates, pc, keyword, sources,
                   invoked_with, client, consumed, emitted, cms_list, parsed, upstream>>

\* Line 116: the generator, suspended on the queue, is woken by a settled task.
GenWake ==
    /\ pc = "awaiting"
    /\ done_q # << >>
    /\ Resume(tasks, client)
    /\ UNCHANGED <<site_config, lists, nlists, nupdates, keyword, sources,
                   invoked_with, tasks, completed, cms_list, parsed, upstream>>

\* Line 118: the consumer has sent the event and asks for the next one.
ConsumerPull ==
    /\ pc = "yielded"
    /\ Resume(tasks, client)
    /\ UNCHANGED <<site_config, lists, nlists, nupdates, keyword, sources,
                   invoked_with, tasks, completed, cms_list, parsed, upstream>>

\* The consumer goes away (client disconnect): the generator is closed where
\* it stands. CancelledError or GeneratorExit unwinds the async with block, which
\* closes the client; nothing in lines 105-118 cancels the tasks.
Cancel ==
    /\ pc \in {"created", "awaiting", "yielded"}
    /\ pc' = "closed"
    /\ client' = IF client = "open" THEN "closed" ELSE client
    /\ UNCHANGED <<site_config, lists, nlists, nupdates, keyword, sources,
                   invoked_with, tasks, done_q, completed, consumed, emitted,
                   cms_list, parsed, upstream>>

\* An update that overwrites the configured list in place
\* (site_config["base_urls"][:] = ...) instead of rebinding the global.
update_config_in_place(n) ==
    /\ nupdates < MaxUpdates
    /\ nupdates' = nupdates + 1
    /\ lists' = [lists EXCEPT ![site_config.base_urls] = ConfigSources(nupdates + 1, n)]
    /\ site_config' = [site_config EXCEPT !.timeout = TimeoutOf(nupdates + 1)]
    /\ UNCHANGED <<nlists, pc, keyword, sources, invoked_with, client, tasks, done_q,
                   completed, consumed, emitted, cms_list, parsed, upstream>>

\* Lines 137-156: POST /config with n sources. model_dump() builds a new dict
\* holding a new list, and the global is rebound to it.
update_config(n) ==
    /\ nupdates < MaxUpdates
    /\ nlists < MaxUpdates + 1
    /\ nupdates' = nupdates + 1
    /\ nlists' = nlists + 1
    /\ lists' = [lists EXCEPT ![nlists + 1] = ConfigSources(nupdates + 1, n)]
    /\ site_config' = [timeout |-> TimeoutOf(nupdates + 1), base_urls |-> nlists + 1]
    /\ UNCHANGED <<pc, keyword, sources, invoked_with, client, tasks, done_q,
                   completed, consumed, emitted, cms_list, parsed, upstream>>

NotRun == [kind |-> "notrun", name |-> << >>, result |-> << >>]

\* The state after import: get_config() has loaded a configuration of n
\* sources, no request has been received.
Init ==
    /\ \E n \in 0..MaxSources :
          lists = [ref \in ListRefs |-> IF ref = 1 THEN ConfigSources(0, n) ELSE << >>]
    /\ site_config = [timeout |-> TimeoutOf(0), base_urls |-> 1]
    /\ nlists = 1
    /\ nupdates = 0
    /\ pc = "idle"
    /\ keyword = << >>
    /\ sources = 0
    /\ invoked_with = << >>
    /\ client = "none"
    /\ tasks = << >>
    /\ done_q = << >>
    /\ completed = << >>
    /\ consumed = 0
    /\ emitted = << >>
    /\ cms_list = << >>
    /\ parsed = NotRun
    /\ upstream = NoResponse

Next ==
    \/ \E kw \in Keywords : search(kw)
    \/ GenStart
    \/ TasksStart
    \/ \E i \in 1..MaxSources, r \in Responses : TaskSettle(i, r)
    \/ GenWake
    \/ ConsumerPull
    \/ Cancel
    \/ \E n \in PostedSizes : update_config(n)

Spec == Init /\ [][Next]_vars

\* The scheduling the liveness claims assume: the event loop runs every
\* callback that is ready (GenStart, TasksStart, GenWake), every request ends
\* (a response, an error, or the timeout of line 90), and a consumer that has
\* not gone away asks for the next event. Cancel and update_config are not
\* forced.
FairSpec ==
    /\ Spec
    /\ WF_vars(GenStart)
    /\ WF_vars(TasksStart)
    /\ \A i \in 1..MaxSources : WF_vars(\E r \in Responses : TaskSettle(i, r))
    /\ WF_vars(GenWake)
    /\ WF_vars(ConsumerPull)

\* The event loop and the consumer keep running; nothing is assumed about
\* when, or whether, a request in flight ends.
PullSpec ==
    /\ Spec
    /\ WF_vars(GenStart)
    /\ WF_vars(TasksStart)
    /\ WF_vars(GenWake)
    /\ WF_vars(ConsumerPull)

\* ------------------------------------------------------------- ParseSpec
\* The characters raw play URLs are drawn from: two letters and the two
\* separators ("$$$" is three of the second).
Alphabet == { "A", "u", "$", "#" }

StringsUpTo(n) == UNION { [1..k -> Alphabet] : k \in 0..n }

\* The example of the specification: "A$url1#B$url2$$$ignored".
SpecExample ==
    << "A", "$", "u", "r", "l", "1", "#", "B", "$", "u", "r", "l", "2",
       "$", "$", "$", "i", "g", "n", "o", "r", "e", "d" >>

\* Every string of at most MaxLen characters, each of them also followed by
\* the delimiter and at most MaxSuffix characters, and the example.
PlayStrings ==
    StringsUpTo(MaxLen)
    \cup { p \o SchemeDelim \o q : p \in StringsUpTo(MaxLen), q \in StringsUpTo(MaxSuffix) }
    \cup { SpecExample }

PlayUrlValues == { Str(s) : s \in PlayStrings } \cup { Null, Missing }

\* The play URLs of the entries of longer lists.
SiblingUrls ==
    { Str(<< "A", "$", "u" >>),
      Str(<< "u", "$", "A", "#", "A", "$", "u" >>),
      Str(<< "A", "$", "u", "$", "u", "#", "u", "$", "A" >>),
      Str(<< "A" >>),
      Str(<< "$", "u" >>),
      Str(<< >>),
      Null,
      Missing }

\* The raw lists parse_cms_data is applied to: the empty list, every list of
\* one entry, and the lists of up to MaxEntries entries over SiblingUrls.
ParseInputs ==
    { << >> }
    \cup { << Entry(u, full, 1) >> : u \in PlayUrlValues, full \in BOOLEAN }
    \cup UNION { { [i \in 1..k |-> Entry(f[i], TRUE, i)] : f \in [1..k -> SiblingUrls] }
                 : k \in 2..MaxEntries }

ParseSourceName == << "s", "r", "c" >>

ParseInit ==
    /\ cms_list \in ParseInputs
    /\ parsed = NotRun
    /\ lists = [ref \in ListRefs |-> << >>]
    /\ site_config = [timeout |-> TimeoutOf(0), base_urls |-> 1]
    /\ nlists = 1
    /\ nupdates = 0
    /\ pc = "idle"
    /\ keyword = << >>
    /\ sources = 0
    /\ invoked_with = << >>
    /\ client = "none"
    /\ tasks = << >>
    /\ done_q = << >>
    /\ completed = << >>
    /\ consumed = 0
    /\ emitted = << >>
    /\ upstream = NoResponse

\* Lines 48-76: one call parse_cms_data(source_name, cms_list).
ParseCall ==
    /\ parsed = NotRun
    /\ parsed' = parse_cms_data(ParseSourceName, cms_list)
    /\ UNCHANGED <<site_config, lists, nlists, nupdates, pc, keyword, sources,
                   invoked_with, client, tasks, done_q, completed, consumed,
                   emitted, cms_list, upstream>>

ParseNext == ParseCall

ParseSpec == ParseInit /\ [][ParseNext]_vars

\* ------------------------------------------------------------- FetchSpec
\* The lists an upstream response may carry.
FetchLists ==
    { << >>,
      << GoodEntry >>,
      << MalformedEntry >>,
      << GoodEntry, MalformedEntry >>,
      << MalformedEntry, GoodEntry >>,
      << Entry(Missing, TRUE, 1) >>,
      << NullUrlEntry >>,
      << GoodEntry, NullUrlEntry >> }

\* Every combination of transport outcome, status, kind of body, "code" and
\* "list".
FetchResponses ==
    { Response(ne, st, body, code, list) :
        ne \in BOOLEAN, st \in {199, 200, 204, 299, 300, 404, 500},
        body \in {"text", "array", "object"}, code \in {0, 1, 2}, list \in FetchLists }

\* One configured source, and the response its API will give.
FetchInit ==
    /\ upstream \in FetchResponses
    /\ lists = [ref \in ListRefs |-> IF ref = 1 THEN ConfigSources(0, 1) ELSE << >>]
    /\ site_config = [timeout |-> TimeoutOf(0), base_urls |-> 1]
    /\ nlists = 1
    /\ nupdates = 0
    /\ pc = "idle"
    /\ keyword = << >>
    /\ sources = 0
    /\ invoked_with = << >>
    /\ client = "none"
    /\ tasks = << >>
    /\ done_q = << >>
    /\ completed = << >>
    /\ consumed = 0
    /\ emitted = << >>
    /\ cms_list = << >>
    /\ parsed = NotRun

\* The search runs undisturbed: no disconnect, no configuration update.
FetchNext ==
    \/ \E kw \in Keywords : search(kw)
    \/ GenStart
    \/ TasksStart
    \/ TaskSettle(1, upstream)
    \/ GenWake
    \/ ConsumerPull

FetchSpec == FetchInit /\ [][FetchNext]_vars

\* ============================================================ properties
TaskIds == 1..Len(tasks)
EventIds == 1..Len(emitted)

\* The place of x in a sequence without repetitions that holds it.
Pos(seq, x) == CHOOSE j \in 1..Len(seq) : seq[j] = x

\* ---- C1 ---------------------------------------------------------------
\* C1: when the stream of a search has ended and each of its N fetches
\* either failed (network error, non-2xx, non-JSON, wrong shape) or succeeded
\* with at least one valid title, the stream holds exactly one event per
\* succeeding source (N-K events), none for a failing source, and at no time
\* two events of one source.
C1_OneEventPerSucceedingSource ==
    /\ \A a, b \in EventIds : a # b => emitted[a].task # emitted[b].task
    /\ \A j \in EventIds : tasks[emitted[j].task].outcome # "failed"
    /\ (pc = "done" /\ \A i \in TaskIds : tasks[i].outcome \in {"failed", "valid"})
       => /\ Len(emitted) = Cardinality({ i \in TaskIds : tasks[i].outcome = "valid" })
          /\ \A i \in TaskIds :
                tasks[i].outcome = "valid"
                => \E j \in EventIds : /\ emitted[j].task = i
                                       /\ emitted[j].data.name = tasks[i].source.name

\* ---- C2 ---------------------------------------------------------------
StreamClosed == pc \in {"done", "closed"}

AllSourcesFailed == \A i \in TaskIds : tasks[i].outcome = "failed"

\* C2: under FairSpec (every fetch settles, the consumer keeps pulling) a
\* search whose generator was created eventually has its stream closed, and
\* a stream that ended with every source failed has emitted nothing.
C2_StreamEventuallyCloses ==
    /\ (pc = "created") ~> StreamClosed
    /\ [](pc = "done" /\ AllSourcesFailed => emitted = << >>)

\* A search over two sources that both failed has ended.
C2_Witness ==
    /\ pc = "done"
    /\ Len(tasks) = 2
    /\ AllSourcesFailed
    /\ emitted = << >>

\* ---- C3 ---------------------------------------------------------------
\* C3: of two emitted events, the one whose task settled first comes first,
\* whatever the positions of the two sources in the source list.
C3_EmissionFollowsCompletion ==
    \A a, b \in EventIds :
        Pos(completed, emitted[a].task) < Pos(completed, emitted[b].task) => a < b

\* Both sources were emitted, the second of the list first.
C3_Witness ==
    /\ Len(emitted) = 2
    /\ emitted[1].task = 2
    /\ emitted[2].task = 1
    /\ completed = << 2, 1 >>

\* ---- C4 ---------------------------------------------------------------
\* C4: the stream of a search that was not cancelled has ended only when
\* every task of the search has settled.
C4_ClosesAfterAllSettled ==
    pc = "done" => \A i \in TaskIds : tasks[i].st = "done"

\* The stream ended after two tasks, one emitted and one that produced nothing.
C4_Witness ==
    /\ pc = "done"
    /\ Len(tasks) = 2
    /\ Len(emitted) = 1
    /\ \E i \in TaskIds : tasks[i].result = None

\* ---- C5 ---------------------------------------------------------------
\* C5: once the consumer has gone away and the generator is closed, no fetch
\* task of the search still has a request in flight.
C5_NoRequestInFlightAfterClose ==
    pc = "closed" => \A i \in TaskIds : tasks[i].st # "inflight"

\* ---- C6 ---------------------------------------------------------------
\* The tasks whose result line 117 lets through, in the order they settled.
EmittableInOrder ==
    SelectSeq(completed, LAMBDA i : ShouldEmit(tasks[i].result))

\* C6: whatever POST /config does after search was invoked, the list the
\* search holds keeps the contents it had at the invocation, the search has
\* one task per source of that list and requests exactly their URLs, and when
\* its stream ends it has emitted every non-empty result.
C6_SearchUsesItsSnapshot ==
    pc \notin {"idle", "rejected"}
    => /\ lists[sources] = invoked_with
       /\ client # "none" => Len(tasks) = Len(invoked_with)
       /\ \A i \in TaskIds :
             /\ tasks[i].source = invoked_with[i]
             /\ tasks[i].st # "created"
                => tasks[i].url = RequestUrl(invoked_with[i].base_url, keyword)
       /\ pc = "done" => [j \in EventIds |-> emitted[j].task] = EmittableInOrder

\* A search invoked under configuration 0 whose tasks started after the
\* update (they read the new timeout) has ended with an event, while the
\* configuration now lists other sources.
C6_Witness ==
    /\ pc = "done"
    /\ nupdates > 0
    /\ Len(tasks) > 0
    /\ tasks[1].source = Source(0, 1)
    /\ tasks[1].timeout = TimeoutOf(1)
    /\ emitted # << >>
    /\ lists[site_config.base_urls] # invoked_with
    /\ lists[site_config.base_urls] # << >>

\* ---- C7 ---------------------------------------------------------------
TitlesHaveEpisodes(r) == \A k \in 1..Len(r.result) : Len(r.result[k].videos) >= 1

\* C7: every emitted event is a SourceResult with at least one Title, and
\* every Title of an event or of a task's result has at least one Episode.
C7_NonEmptyTitlesAndEpisodes ==
    /\ \A j \in EventIds :
          /\ emitted[j].data.kind = "dict"
          /\ Len(emitted[j].data.result) >= 1
          /\ TitlesHaveEpisodes(emitted[j].data)
    /\ \A i \in TaskIds : TitlesHaveEpisodes(tasks[i].result)

\* One source was emitted; the other parsed to a SourceResult without titles
\* and was not.
C7_Witness ==
    /\ pc = "done"
    /\ Len(emitted) = 1
    /\ \E i \in TaskIds : tasks[i].result.kind = "dict" /\ tasks[i].result.result = << >>

\* ---- C8 ---------------------------------------------------------------
\* C8: no task settles with an exception and the generator is never left by
\* one: a failed fetch settles with None, and when the stream ends every
\* non-empty result of the other sources has been emitted.
C8_FailuresCollapseToNone ==
    /\ pc # "error"
    /\ \A i \in TaskIds :
          /\ tasks[i].st = "done" => tasks[i].result.kind \in {"None", "dict"}
          /\ tasks[i].outcome = "failed" => tasks[i].result = None
    /\ pc = "done"
       => \A i \in TaskIds : ShouldEmit(tasks[i].result)
                             => \E j \in EventIds : emitted[j].task = i

\* A fetch failed first; the other source's result was emitted after it.
C8_Witness ==
    /\ pc = "done"
    /\ Len(completed) = 2
    /\ tasks[completed[1]].outcome = "failed"
    /\ Len(emitted) = 1
    /\ emitted[1].task = completed[2]

\* ---- C9 ---------------------------------------------------------------
\* Where the first "$$$" of s starts (0 when s holds none), by the definition
\* of a first occurrence rather than by a scan.
FirstDelimAt(s) ==
    LET at == { k \in 1..(Len(s) - 2) : SubSeq(s, k, k + 2) = SchemeDelim }
    IN  IF at = { } THEN 0 ELSE CHOOSE k \in at : \A m \in at : k <= m

BeforeFirstDelim(s) ==
    IF FirstDelimAt(s) = 0 THEN s ELSE SubSeq(s, 1, FirstDelimAt(s) - 1)

\* The raw list with the play URL of entry i replaced by the string s.
WithPlayUrl(cms, i, s) == [cms EXCEPT ![i].vod_play_url = Str(s)]

ExampleEpisodes ==
    << [name |-> << "A" >>, video_url |-> << "u", "r", "l", "1" >>],
       [name |-> << "B" >>, video_url |-> << "u", "r", "l", "2" >>] >>

\* C9: what a call returned is what parsing returns when the play URL of
\* any one entry is cut before its first "$$$", and when the text after that
\* first "$$$" is replaced by any other text; and the example of the
\* specification yields exactly its two episodes.
C9_OnlyFirstSchemeIsRead ==
    parsed.kind = "dict"
    => /\ \A i \in 1..Len(cms_list) :
             LET s == cms_list[i].vod_play_url.s
                 k == FirstDelimAt(s)
             IN  cms_list[i].vod_play_url.t = "str"
                 => /\ parse_cms_data(ParseSourceName,
                                      WithPlayUrl(cms_list, i, BeforeFirstDelim(s))) = parsed
                    /\ k > 0
                       => \A q \in StringsUpTo(MaxSuffix) :
                             parse_cms_data(ParseSourceName,
                                            WithPlayUrl(cms_list, i, SubSeq(s, 1, k + 2) \o q))
                             = parsed
       /\ (Len(cms_list) = 1 /\ cms_list[1].vod_play_url = Str(SpecExample))
          => /\ Len(parsed.result) = 1
             /\ parsed.result[1].videos = ExampleEpisodes

\* The example has been parsed to its two episodes.
C9_Witness ==
    /\ Len(cms_list) = 1
    /\ cms_list[1].vod_play_url = Str(SpecExample)
    /\ parsed.kind = "dict"
    /\ Len(parsed.result) = 1
    /\ parsed.result[1].videos = ExampleEpisodes

\* ---- C10 --------------------------------------------------------------
\* C10: every Episode of every Title parse_cms_data returned has a non-empty
\* name and a non-empty video_url.
C10_EpisodeFieldsNonEmpty ==
    parsed.kind = "dict"
    => \A k \in 1..Len(parsed.result) :
          \A e \in 1..Len(parsed.result[k].videos) :
             /\ parsed.result[k].videos[e].name # << >>
             /\ parsed.result[k].videos[e].video_url # << >>

\* ---- C11 --------------------------------------------------------------
\* The number of "$" in a token: a token of n "$"-separated parts has n - 1.
Dollars(tok) == Cardinality({ k \in 1..Len(tok) : tok[k] = "$" })

\* A token is well-formed when it has exactly two "$"-separated parts.
WellFormedToken(tok) == Dollars(tok) = 1

\* The Episode a well-formed token stands for: the text before its "$" and
\* the text after it.
EpisodeOfToken(tok) ==
    LET d == CHOOSE k \in 1..Len(tok) : tok[k] = "$"
    IN  [name |-> SubSeq(tok, 1, d - 1), video_url |-> SubSeq(tok, d + 1, Len(tok))]

\* The tokens of the first play scheme of a play URL.
TokensOf(s) == split(BeforeFirstDelim(s), EpisodeSep)

\* The episodes an entry is expected to have: its well-formed tokens.
ExpectedEpisodes(s) ==
    LET wf == SelectSeq(TokensOf(s), WellFormedToken)
    IN  [k \in 1..Len(wf) |-> EpisodeOfToken(wf[k])]

RECURSIVE JoinTokens(_)
JoinTokens(toks) ==
    IF toks = << >> THEN << >>
    ELSE IF Len(toks) = 1 THEN toks[1]
    ELSE toks[1] \o EpisodeSep \o JoinTokens(Tail(toks))

\* A sequence without its j-th element.
RemoveAt(seq, j) == SubSeq(seq, 1, j - 1) \o SubSeq(seq, j + 1, Len(seq))

\* The entries (by position) that have at least one well-formed token.
EntriesWithEpisodes ==
    SelectSeq([i \in 1..Len(cms_list) |-> i],
              LAMBDA i : ExpectedEpisodes(PlayUrl(cms_list[i]).s) # << >>)

\* C11: in what a call returned, the episodes of every entry are exactly its
\* well-formed tokens (an entry without any has no Title), and the result is
\* the one parsing returns with any one malformed token taken out.
C11_MalformedTokensAreDropped ==
    parsed.kind = "dict"
    => /\ Len(parsed.result) = Len(EntriesWithEpisodes)
       /\ \A k \in 1..Len(EntriesWithEpisodes) :
             parsed.result[k].videos
             = ExpectedEpisodes(PlayUrl(cms_list[EntriesWithEpisodes[k]]).s)
       /\ \A i \in 1..Len(cms_list) :
             LET toks == TokensOf(PlayUrl(cms_list[i]).s)
             IN  \A j \in 1..Len(toks) :
                    ~WellFormedToken(toks[j])
                    => parse_cms_data(ParseSourceName,
                                      WithPlayUrl(cms_list, i, JoinTokens(RemoveAt(toks, j))))
                       = parsed

\* An entry with a token of three parts next to a well-formed one was parsed,
\* beside an entry whose only token has one part.
C11_Witness ==
    /\ parsed.kind = "dict"
    /\ Len(cms_list) = 2
    /\ cms_list[1].vod_play_url = Str(<< "A", "$", "u", "$", "u", "#", "u", "$", "A" >>)
    /\ cms_list[2].vod_play_url = Str(<< "A" >>)
    /\ Len(parsed.result) = 1
    /\ parsed.result[1].videos = << [name |-> << "u" >>, video_url |-> << "A" >>] >>

\* ---- C12 --------------------------------------------------------------
\* C12: every call of parse_cms_data returns a SourceResult (it does not
\* raise), with the Titles of the well-formed entries of its list, and for the
\* empty list it returns the source name with no Title.
C12_ParsingIsTotal ==
    parsed # NotRun
    => /\ parsed.kind = "dict"
       /\ parsed.name = ParseSourceName
       /\ Len(parsed.result) = Len(EntriesWithEpisodes)
       /\ cms_list = << >> => parsed.result = << >>

\* ---- C13 --------------------------------------------------------------
\* Parsing a list yields a Title: no entry stops the parser (every play URL
\* is a string or absent) and some entry has a well-formed token.
YieldsTitle(list) ==
    /\ \A j \in 1..Len(list) : PlayUrl(list[j]).t = "str"
    /\ \E j \in 1..Len(list) : ExpectedEpisodes(PlayUrl(list[j]).s) # << >>

\* The response is 2xx, its body is a JSON object with "code" 1 and a
\* non-empty "list", and parsing the list yields a Title.
EmitCondition(r) ==
    /\ ~r.neterr
    /\ r.status \in 200..299
    /\ r.body = "object"
    /\ r.code = 1
    /\ r.list # << >>
    /\ YieldsTitle(r.list)

C14_SettledResultIsReceived ==
    \A i \in 1..MaxSources :
        (i <= Len(tasks) /\ tasks[i].st = "done" /\ ShouldEmit(tasks[i].result))
        ~> (pc = "closed" \/ \E j \in EventIds : emitted[j].task = i)

\* The event of a later source has been emitted while the request of the
\* first source is still in flight.
C14_Witness ==
    /\ Len(tasks) >= 2
    /\ tasks[1].st = "inflight"
    /\ \E j \in EventIds : emitted[j].task = 2

C16_ClientOutlivesItsTasks ==
    client = "closed" => \A i \in TaskIds : tasks[i].st = "done"

\* ---------------------------------------------------------------- C17
\* C17: the timeout a fetch task applies to its request is the timeout of the
\* configuration its source came from, the one in force when search was
\* invoked, whatever POST /config has done since.
C17_TimeoutFromSearchSnapshot ==
    \A i \in TaskIds :
        tasks[i].st # "created"
        => \E v \in 0..MaxUpdates :
              /\ tasks[i].source = Source(v, i)
              /\ tasks[i].timeout = TimeoutOf(v)

\* ---------------------------------------------------------------- C18
\* The strictly increasing maps from 1..n into 1..m.
Increasing(n, m) ==
    { g \in [1..n -> 1..m] : \A k \in 1..n : \A l \in 1..n : k < l => g[k] < g[l] }

\* The token an Episode was read from.
TokenOfEpisode(ep) == ep.name \o PartSep \o ep.video_url

\* The Titles come from entries at increasing positions of the raw list, and
\* the Episodes of each from tokens at increasing positions of its first
\* play scheme.
InRawOrder(titles) ==
    \E f \in Increasing(Len(titles), Len(cms_list)) :
        \A k \in 1..Len(titles) :
            LET item == cms_list[f[k]]
                toks == TokensOf(PlayUrl(item).s)
                eps == titles[k].videos
            IN  /\ titles[k].vod_id = Get(item, "vod_id", Str(<< >>))
                /\ \E g \in Increasing(Len(eps), Len(toks)) :
                       \A e \in 1..Len(eps) : TokenOfEpisode(eps[e]) = toks[g[e]]

\* C18: in what a call returned, the Titles are in the order of the entries
\* of the raw list and the Episodes of a Title in the order of their tokens.
C18_OrderIsPreserved ==
    parsed.kind = "dict" => InRawOrder(parsed.result)

\* A list of two entries, the first with two well-formed tokens, was parsed
\* into two Titles.
C18_Witness ==
    /\ parsed.kind = "dict"
    /\ Len(cms_list) = 2
    /\ cms_list[1].vod_play_url = Str(<< "u", "$", "A", "#", "A", "$", "u" >>)
    /\ Len(parsed.result) = 2
    /\ Len(parsed.result[1].videos) = 2
    /\ parsed.result[1].vod_id # parsed.result[2].vod_id

\* ---------------------------------------------------------------- C19
\* The query of a URL: what follows its first "?".
QueryOf(url) ==
    LET q == CHOOSE k \in 1..Len(url) : url[k] = "?" /\ \A l \in 1..(k - 1) : url[l] # "?"
    IN  SubSeq(url, q + 1, Len(url))

\* Percent-decoding, character by character.
PercentDecode(s) ==
    [k \in 1..Len(s) |-> CASE s[k] = "%26" -> "&"
                          [] s[k] = "%23" -> "#"
                          [] s[k] = "%3D" -> "="
                          [] OTHER -> s[k]]

\* C19: the URL a task requests is the base_url of its source followed by a
\* query of exactly two parameters, ac=detail and wd, and decoding the value
\* of wd gives the keyword of the search.
C19_QueryIsAcAndEncodedKeyword ==
    \A i \in TaskIds :
        tasks[i].st # "created"
        => LET url == tasks[i].url
               base == tasks[i].source.base_url
               params == split(QueryOf(url), << "&" >>)
           IN  /\ SubSeq(url, 1, Len(base) + 1) = base \o << "?" >>
               /\ Len(params) = 2
               /\ params[1] = << "ac", "=", "detail" >>
               /\ Len(params[2]) >= 2
               /\ SubSeq(params[2], 1, 2) = << "wd", "=" >>
               /\ PercentDecode(SubSeq(params[2], 3, Len(params[2]))) = keyword

====
